---------------------------- MODULE Spec2Model ----------------------------
(***************************************************************************)
(* One render pass of src/app.py, the DI & FRA dashboard script.           *)
(*                                                                         *)
(* The script runs top to bottom once per pass: upload guard, read_csv,    *)
(* date-column detection, rename, date parsing, row filtering, column      *)
(* classification, numeric coercion, the date-range widget, the range      *)
(* filter, the series selection and the four tabs.  Each of these is one   *)
(* action; pc is the position of the pass in the script.                   *)
(*                                                                         *)
(* Text (column names, cell contents) is a sequence of one-character       *)
(* strings, so that lower(), "in", startswith and the parsers are          *)
(* computed character by character.                                        *)
(***************************************************************************)
EXTENDS Integers, Sequences, FiniteSets

(***************************************************************************)
(* Bounds of the model.                                                    *)
(***************************************************************************)
\* columns of a table in the column-name specification
MaxCols == 4
\* rows of a table in the row specification
MaxRows == 2
\* columns and rows of a table in the full-pass specification
MaxPassCols == 3
MaxPassRows == 2

(***************************************************************************)
(* Text.                                                                   *)
(***************************************************************************)
sDate      == <<"D","a","t","e">>
sTradeDate == <<"t","r","a","d","e","_","d","a","t","e">>
sUnnamed0  == <<"U","n","n","a","m","e","d",":"," ","0">>
sF1        == <<"F","1">>
sF2        == <<"F","2">>
sF1F2      == <<"F","1","-","F","2">>
sPrice     == <<"P","r","i","c","e">>

\* the literals of detect_date_column and of the classifier
litDate     == <<"d","a","t","e">>
litUnnamed0 == <<"u","n","n","a","m","e","d",":"," ","0">>
litF        == <<"F">>
litHyphen   == <<"-">>

\* cell texts
sDay1Noon == <<"2","0","2","3","-","0","1","-","0","1"," ","1","2",":","0","0">>
sDay2     == <<"2","0","2","3","-","0","1","-","0","2">>
sDay2Midnight == <<"2","0","2","3","-","0","1","-","0","2"," ","0","0",":","0","0">>
sBadDate  == <<"b","a","d","-","d","a","t","e">>
sOnePtFive == <<"1",".","5">>

UpperChars == <<"A","B","C","D","E","F","G","H","I","J","K","L","M",
                "N","O","P","Q","R","S","T","U","V","W","X","Y","Z">>
LowerChars == <<"a","b","c","d","e","f","g","h","i","j","k","l","m",
                "n","o","p","q","r","s","t","u","v","w","x","y","z">>
DigitChars == <<"0","1","2","3","4","5","6","7","8","9">>

\* str.lower() on one character
LowerChar(c) ==
    IF \E i \in 1..Len(UpperChars) : UpperChars[i] = c
    THEN LowerChars[CHOOSE i \in 1..Len(UpperChars) : UpperChars[i] = c]
    ELSE c

\* str.lower()
Lower(s) == [i \in 1..Len(s) |-> LowerChar(s[i])]

\* sub in s
Contains(s, sub) ==
    \E i \in 0..(Len(s) - Len(sub)) : SubSeq(s, i + 1, i + Len(sub)) = sub

\* s.startswith(p)
StartsWith(s, p) == Len(s) >= Len(p) /\ SubSeq(s, 1, Len(p)) = p

IsDigit(c) == \E i \in 1..Len(DigitChars) : DigitChars[i] = c
DigitVal(c) == (CHOOSE i \in 1..Len(DigitChars) : DigitChars[i] = c) - 1
AllDigits(s) == Len(s) > 0 /\ \A i \in 1..Len(s) : IsDigit(s[i])

RECURSIVE DigitsVal(_)
DigitsVal(s) ==
    IF s = <<>> THEN 0
    ELSE 10 * DigitsVal(SubSeq(s, 1, Len(s) - 1)) + DigitVal(s[Len(s)])

Range(s) == {s[i] : i \in 1..Len(s)}

\* Optional values: None is the empty sequence, Some(x) the one-element one.
None == <<>>
Some(x) == <<x>>

(***************************************************************************)
(* Cells of a data frame.  A cell is a text (object dtype), a number       *)
(* (float, kept in hundredths), NaN, a timestamp (minutes since            *)
(* 1970-01-01 00:00) or NaT.  Every cell has the three fields so that any  *)
(* two cells compare.                                                      *)
(***************************************************************************)
StrCell(s) == [t |-> "str", s |-> s, n |-> 0]
NumCell(n) == [t |-> "num", s |-> <<>>, n |-> n]
NaN        == [t |-> "nan", s |-> <<>>, n |-> 0]
TsCell(m)  == [t |-> "ts",  s |-> <<>>, n |-> m]
NaT        == [t |-> "nat", s |-> <<>>, n |-> 0]
\* a datetime.date: days since 1970-01-01
DateVal(d) == [t |-> "date", s |-> <<>>, n |-> d]


(***************************************************************************)
(* pd.to_datetime on one cell (errors="coerce").  A text of the form       *)
(* YYYY-MM-DD, optionally followed by " HH:MM", is a timestamp; any other  *)
(* text is NaT.  A float is nanoseconds since the epoch.  NaN is NaT.      *)
(***************************************************************************)
DaysBeforeMonth == <<0, 31, 59, 90, 120, 151, 181, 212, 243, 273, 304, 334>>
DaysInMonth     == <<31, 28, 31, 30, 31, 30, 31, 31, 30, 31, 30, 31>>

IsLeap(y) == (y % 4 = 0 /\ y % 100 # 0) \/ y % 400 = 0
LeapsBefore(y) == ((y - 1) \div 4) - ((y - 1) \div 100) + ((y - 1) \div 400)

\* days from 1970-01-01 to y-m-d
DaysFromEpoch(y, m, d) ==
    (y - 1970) * 365 + (LeapsBefore(y) - LeapsBefore(1970))
    + DaysBeforeMonth[m] + (IF m > 2 /\ IsLeap(y) THEN 1 ELSE 0) + (d - 1)

ValidDate(y, m, d) ==
    /\ y >= 1970
    /\ m \in 1..12
    /\ d >= 1
    /\ d <= DaysInMonth[m] + (IF m = 2 /\ IsLeap(y) THEN 1 ELSE 0)

ParseDateText(s) ==
    LET dateOk ==
            /\ Len(s) \in {10, 16}
            /\ AllDigits(SubSeq(s, 1, 4)) /\ s[5] = "-"
            /\ AllDigits(SubSeq(s, 6, 7)) /\ s[8] = "-"
            /\ AllDigits(SubSeq(s, 9, 10))
        timeOk ==
            \/ Len(s) = 10
            \/ /\ s[11] = " "
               /\ AllDigits(SubSeq(s, 12, 13)) /\ s[14] = ":"
               /\ AllDigits(SubSeq(s, 15, 16))
               /\ DigitsVal(SubSeq(s, 12, 13)) < 24
               /\ DigitsVal(SubSeq(s, 15, 16)) < 60
        y == DigitsVal(SubSeq(s, 1, 4))
        m == DigitsVal(SubSeq(s, 6, 7))
        d == DigitsVal(SubSeq(s, 9, 10))
        mins == IF Len(s) = 10 THEN 0
                ELSE 60 * DigitsVal(SubSeq(s, 12, 13)) + DigitsVal(SubSeq(s, 15, 16))
    IN  IF dateOk /\ timeOk /\ ValidDate(y, m, d)
        THEN TsCell(1440 * DaysFromEpoch(y, m, d) + mins)
        ELSE NaT

to_datetime(c) ==
    CASE c.t = "str"  -> ParseDateText(c.s)
      [] c.t = "num"  -> TsCell(((c.n \div 100) \div 60000) \div 1000000)
      [] c.t = "ts"   -> c
      [] c.t = "date" -> TsCell(1440 * c.n)
      [] OTHER        -> NaT

\* Timestamp.date(); NaT.date() is NaT
DateOf(ts) == IF ts.t = "ts" THEN DateVal(ts.n \div 1440) ELSE NaT

\* comparisons of timestamps: any comparison with NaT is False
TsGe(a, b) == a.t = "ts" /\ b.t = "ts" /\ a.n >= b.n
TsLe(a, b) == a.t = "ts" /\ b.t = "ts" /\ a.n <= b.n
TsEq(a, b) == a.t = "ts" /\ b.t = "ts" /\ a.n = b.n

(***************************************************************************)
(* pd.to_numeric on one cell (errors="coerce").  A text of digits with an  *)
(* optional sign and an optional fraction of one or two digits is its      *)
(* value (in hundredths); any other text is NaN.                           *)
(***************************************************************************)
ParseNumText(s) ==
    LET neg  == Len(s) > 0 /\ s[1] = "-"
        body == IF neg THEN SubSeq(s, 2, Len(s)) ELSE s
        dots == {i \in 1..Len(body) : body[i] = "."}
        dot  == IF dots = {} THEN Len(body) + 1 ELSE CHOOSE i \in dots : TRUE
        ip   == SubSeq(body, 1, dot - 1)
        fp   == SubSeq(body, dot + 1, Len(body))
        ok   == /\ Cardinality(dots) <= 1
                /\ AllDigits(ip)
                /\ (dots = {} \/ (AllDigits(fp) /\ Len(fp) <= 2))
        frac == IF fp = <<>> THEN 0
                ELSE IF Len(fp) = 1 THEN 10 * DigitsVal(fp) ELSE DigitsVal(fp)
        mag  == 100 * DigitsVal(ip) + frac
    IN  IF ok THEN NumCell(IF neg THEN 0 - mag ELSE mag) ELSE NaN

to_numeric(c) ==
    CASE c.t = "str" -> ParseNumText(c.s)
      [] c.t = "num" -> c
      [] OTHER       -> NaN

(***************************************************************************)
(* Data frames: column names, rows of cells, and the row labels (index).   *)
(***************************************************************************)
Frame(cols, rows, index) == [columns |-> cols, rows |-> rows, index |-> index]
EmptyFrame == Frame(<<>>, <<>>, <<>>)

\* the positions of the columns called name
ColumnsNamed(d, name) == {j \in 1..Len(d.columns) : d.columns[j] = name}

\* the rows of d at the positions keep (ascending), labels kept
RECURSIVE KeepRows(_, _, _)
KeepRows(d, keep, i) ==
    IF i > Len(d.rows) THEN Frame(d.columns, <<>>, <<>>)
    ELSE LET rest == KeepRows(d, keep, i + 1)
         IN  IF i \in keep
             THEN Frame(d.columns, <<d.rows[i]>> \o rest.rows,
                        <<d.index[i]>> \o rest.index)
             ELSE rest

\* d with pd.to_datetime applied to the columns at positions js
DatetimeColumns(d, js) ==
    Frame(d.columns,
          [i \in 1..Len(d.rows) |->
              [j \in 1..Len(d.columns) |->
                  IF j \in js THEN to_datetime(d.rows[i][j]) ELSE d.rows[i][j]]],
          d.index)

\* d with pd.to_numeric applied to the columns at positions js
NumericColumns(d, js) ==
    Frame(d.columns,
          [i \in 1..Len(d.rows) |->
              [j \in 1..Len(d.columns) |->
                  IF j \in js THEN to_numeric(d.rows[i][j]) ELSE d.rows[i][j]]],
          d.index)

\* pd.read_csv: a column whose every cell is a number is read as floats,
\* any other column as text; the rows are labelled 0..n-1.
read_csv(file) ==
    LET n == Len(file.rows)
        numeric(j) == n > 0 /\ \A i \in 1..n : ParseNumText(file.rows[i][j]).t = "num"
    IN  Frame(file.columns,
              [i \in 1..n |->
                  [j \in 1..Len(file.columns) |->
                      IF numeric(j) THEN ParseNumText(file.rows[i][j])
                      ELSE StrCell(file.rows[i][j])]],
              [i \in 1..n |-> i - 1])

(***************************************************************************)
(* detect_date_column.                                                     *)
(***************************************************************************)
\* what one iteration of the loop appends to candidates
CandidatesOf(col) ==
    (IF Contains(Lower(col), litDate) THEN <<col>> ELSE <<>>)
    \o (IF litUnnamed0 = Lower(col) THEN <<col>> ELSE <<>>)

RECURSIVE Candidates(_)
Candidates(cols) ==
    IF cols = <<>> THEN <<>>
    ELSE CandidatesOf(Head(cols)) \o Candidates(Tail(cols))

detect_date_column(cols) ==
    IF Candidates(cols) # <<>> THEN Some(Candidates(cols)[1])
    ELSE IF Len(cols) > 0 THEN Some(cols[1]) ELSE None

\* df.rename(columns={date_col: "Date"})
rename(cols, dc) ==
    [j \in 1..Len(cols) |-> IF dc # None /\ cols[j] = dc[1] THEN sDate ELSE cols[j]]

(***************************************************************************)
(* Column classification.                                                  *)
(***************************************************************************)
IsDi(c)  == StartsWith(c, litF) /\ ~Contains(c, litHyphen)
IsFra(c) == Contains(c, litHyphen)

\* DiCols without the hyphen test of line 65
DiCols_keeps_hyphen(cols) == SelectSeq(cols, LAMBDA c : StartsWith(c, litF))

DiCols(cols)  == SelectSeq(cols, IsDi)
FraCols(cols) == SelectSeq(cols, IsFra)


\* coerce applied to every column but Date
coerce_every_column(d, cols) ==
    IF cols # <<>>
    THEN NumericColumns(d, {j \in 1..Len(d.columns) : d.columns[j] # sDate})
    ELSE d

\* df[cols] = df[cols].apply(pd.to_numeric, errors="coerce"), under "if cols:"
coerce(d, cols) ==
    IF cols # <<>>
    THEN NumericColumns(d, {j \in 1..Len(d.columns) : d.columns[j] \in Range(cols)})
    ELSE d

\* dropna_reset without reset_index
dropna_keeps_labels(d, j) ==
    KeepRows(d, {i \in 1..Len(d.rows) : d.rows[i][j].t # "nat"}, 1)

\* df[~df["Date"].isna()].reset_index(drop=True), the Date column at position j
dropna_reset(d, j) ==
    LET kept == KeepRows(d, {i \in 1..Len(d.rows) : d.rows[i][j].t # "nat"}, 1)
    IN  Frame(kept.columns, kept.rows, [i \in 1..Len(kept.rows) |-> i - 1])

\* df.loc[mask].copy() with
\* mask = (Date >= pd.to_datetime(start)) & (Date <= pd.to_datetime(end))
filter_range(d, j, start, end) ==
    KeepRows(d, {i \in 1..Len(d.rows) :
                    /\ TsGe(d.rows[i][j], to_datetime(start))
                    /\ TsLe(d.rows[i][j], to_datetime(end))}, 1)

\* Series.min() and Series.max() of the column at position j (NaT when empty)
ColumnMin(d, j) ==
    IF d.rows = <<>> THEN NaT
    ELSE TsCell(CHOOSE m \in {d.rows[i][j].n : i \in 1..Len(d.rows)} :
                    \A i \in 1..Len(d.rows) : m <= d.rows[i][j].n)
ColumnMax(d, j) ==
    IF d.rows = <<>> THEN NaT
    ELSE TsCell(CHOOSE m \in {d.rows[i][j].n : i \in 1..Len(d.rows)} :
                    \A i \in 1..Len(d.rows) : m >= d.rows[i][j].n)

(***************************************************************************)
(* Uploaded files: the header and the rows of text of a CSV, or no file.   *)
(***************************************************************************)
File(cols, rows) == [present |-> TRUE, columns |-> cols, rows |-> rows]
NoFile == [present |-> FALSE, columns |-> <<>>, rows |-> <<>>]

\* the sequences of at most n distinct elements of S
InjSeqs(S, n) ==
    UNION {{f \in [1..k -> S] : \A i, j \in 1..k : i # j => f[i] # f[j]} : k \in 0..n}

\* the sequences of at most n elements of S
SeqsUpTo(S, n) == UNION {[1..k -> S] : k \in 0..n}

\* at most n rows of w cells each, every cell of a row holding the same text
UniformRows(w, n, cells) ==
    IF w = 0 THEN {<<>>}
    ELSE SeqsUpTo({[j \in 1..w |-> c] : c \in cells}, n)

\* at most n rows of w cells each
AnyRows(w, n, cells) ==
    IF w = 0 THEN {<<>>} ELSE SeqsUpTo([1..w -> cells], n)

NamePool == {sDate, sTradeDate, sUnnamed0, sF1, sF2, sF1F2, sPrice}
PassNames == {sDate, sUnnamed0, sF1, sF1F2}
\* Each pool writes its dates in one format, so that parsing the column cell
\* by cell is what pd.to_datetime does whether or not it infers one format
\* for the whole column.
PassCells == {sDay1Noon, sDay2Midnight, sBadDate}
RowCells == {sDay2, sBadDate, sOnePtFive}
RowColumnLists ==
    { <<>>, <<sDate, sF1, sPrice>>, <<sF1F2, sUnnamed0>>, <<sF1, sF2>>,
      <<sTradeDate, sDate>> }


(***************************************************************************)
(* The state of a render pass.                                             *)
(***************************************************************************)
VARIABLES
    pc,            \* position of the pass in the script
    uploaded,      \* the file of the uploader widget, or NoFile
    df,            \* the data frame
    date_col,      \* result of detect_date_column: None or Some(name)
    di_cols,       \* detected DI columns
    fra_cols,      \* detected FRA columns
    min_date,      \* df["Date"].min()
    max_date,      \* df["Date"].max()
    date_range,    \* what the date-range widget returned
    start_date,
    end_date,
    df_filtered,
    selected_di,
    selected_fra,
    show_raw,
    show_corr,
    out,           \* the elements shown on the page, in order
    err,           \* the exception that ended the pass, or "none"
    steps          \* the sections of the script that have run, in order

frameVars  == <<df, date_col, di_cols, fra_cols>>
rangeVars  == <<min_date, max_date, date_range, start_date, end_date, df_filtered>>
selectVars == <<selected_di, selected_fra, show_raw, show_corr>>
vars == <<pc, uploaded, frameVars, rangeVars, selectVars, out, err, steps>>

Emit(tab, kind) == [tab |-> tab, kind |-> kind]

\* what the date-range widget returned: a tuple of dates, or a bare date
TupleResult(items) == [kind |-> "tuple", items |-> items]
SingleResult(d)    == [kind |-> "date", items |-> <<d>>]
NoResult           == [kind |-> "none", items |-> <<>>]

\* the position of the Date column
DatePos(d) == CHOOSE j \in ColumnsNamed(d, sDate) : TRUE

InitWith(files) ==
    /\ uploaded \in files
    /\ pc = "upload_guard"
    /\ df = EmptyFrame
    /\ date_col = None
    /\ di_cols = <<>>
    /\ fra_cols = <<>>
    /\ min_date = NaT
    /\ max_date = NaT
    /\ date_range = NoResult
    /\ start_date = NaT
    /\ end_date = NaT
    /\ df_filtered = EmptyFrame
    /\ selected_di = <<>>
    /\ selected_fra = <<>>
    /\ show_raw = FALSE
    /\ show_corr = TRUE
    /\ out = <<>>
    /\ err = "none"
    /\ steps = <<>>

\* the files of the full-pass specification
PassFiles ==
    {NoFile} \cup
    UNION {{File(c, r) : r \in UniformRows(Len(c), MaxPassRows, PassCells)} :
              c \in InjSeqs(PassNames, MaxPassCols)}

\* the files of the column-name specification
NameFiles ==
    {NoFile} \cup
    UNION {{File(c, r) : r \in UniformRows(Len(c), 1, {sDay2, sBadDate})} :
              c \in InjSeqs(NamePool, MaxCols)}

\* the files of the row specification
RowFiles ==
    {NoFile} \cup
    UNION {{File(c, r) : r \in AnyRows(Len(c), MaxRows, RowCells)} :
              c \in RowColumnLists}

Init      == InitWith(PassFiles)
InitNames == InitWith(NameFiles)
InitRows  == InitWith(RowFiles)

\* an unhandled exception ends the pass
Raise(exc) == pc' = "crashed" /\ err' = exc

(***************************************************************************)
(* Load and clean (lines 46-72).                                           *)
(***************************************************************************)
UploadGuard ==
    /\ pc = "upload_guard"
    /\ steps' = Append(steps, "upload_guard")
    /\ IF ~uploaded.present
       THEN out' = Append(out, Emit("page", "info")) /\ pc' = "stopped"
       ELSE out' = out /\ pc' = "read_csv"
    /\ UNCHANGED <<uploaded, frameVars, rangeVars, selectVars, err>>

ReadCsv ==
    /\ pc = "read_csv"
    /\ steps' = Append(steps, "read_csv")
    /\ df' = read_csv(uploaded)
    /\ pc' = "detect"
    /\ UNCHANGED <<uploaded, date_col, di_cols, fra_cols, rangeVars, selectVars, out, err>>

DetectDate ==
    /\ pc = "detect"
    /\ steps' = Append(steps, "detect")
    /\ date_col' = detect_date_column(df.columns)
    /\ pc' = "date_guard"
    /\ UNCHANGED <<uploaded, df, di_cols, fra_cols, rangeVars, selectVars, out, err>>

\* DateColGuard without st.stop()
DateColGuard_no_stop ==
    /\ pc = "date_guard"
    /\ steps' = Append(steps, "date_guard")
    /\ out' = (IF date_col = None THEN Append(out, Emit("page", "error")) ELSE out)
    /\ pc' = "rename"
    /\ UNCHANGED <<uploaded, frameVars, rangeVars, selectVars, err>>

DateColGuard ==
    /\ pc = "date_guard"
    /\ steps' = Append(steps, "date_guard")
    /\ IF date_col = None
       THEN out' = Append(out, Emit("page", "error")) /\ pc' = "stopped"
       ELSE out' = out /\ pc' = "rename"
    /\ UNCHANGED <<uploaded, frameVars, rangeVars, selectVars, err>>

RenameDate ==
    /\ pc = "rename"
    /\ steps' = Append(steps, "rename")
    /\ df' = [df EXCEPT !.columns = rename(df.columns, date_col)]
    /\ pc' = "parse_dates"
    /\ UNCHANGED <<uploaded, date_col, di_cols, fra_cols, rangeVars, selectVars, out, err>>

\* df["Date"] = pd.to_datetime(df["Date"], errors="coerce").  With two
\* columns called Date, df["Date"] is a frame and to_datetime raises.
ParseDates ==
    /\ pc = "parse_dates"
    /\ steps' = Append(steps, "parse_dates")
    /\ LET js == ColumnsNamed(df, sDate)
       IN  IF Cardinality(js) = 1
           THEN df' = DatetimeColumns(df, js) /\ pc' = "drop_missing" /\ err' = err
           ELSE df' = df /\ Raise(IF js = {} THEN "KeyError" ELSE "ValueError")
    /\ UNCHANGED <<uploaded, date_col, di_cols, fra_cols, rangeVars, selectVars, out>>

DropMissingDates ==
    /\ pc = "drop_missing"
    /\ steps' = Append(steps, "drop_missing")
    /\ df' = dropna_reset(df, DatePos(df))
    /\ pc' = "classify"
    /\ UNCHANGED <<uploaded, date_col, di_cols, fra_cols, rangeVars, selectVars, out, err>>

\* Classify reading the column names of the file, as before the rename
Classify_before_rename ==
    /\ pc = "classify"
    /\ steps' = Append(steps, "classify")
    /\ di_cols' = DiCols(uploaded.columns)
    /\ fra_cols' = FraCols(uploaded.columns)
    /\ pc' = "coerce"
    /\ UNCHANGED <<uploaded, df, date_col, rangeVars, selectVars, out, err>>

Classify ==
    /\ pc = "classify"
    /\ steps' = Append(steps, "classify")
    /\ di_cols' = DiCols(df.columns)
    /\ fra_cols' = FraCols(df.columns)
    /\ pc' = "coerce"
    /\ UNCHANGED <<uploaded, df, date_col, rangeVars, selectVars, out, err>>

CoerceNumeric ==
    /\ pc = "coerce"
    /\ steps' = Append(steps, "coerce")
    /\ df' = coerce(coerce(df, di_cols), fra_cols)
    /\ pc' = "date_input"
    /\ UNCHANGED <<uploaded, date_col, di_cols, fra_cols, rangeVars, selectVars, out, err>>

NextClean ==
    \/ UploadGuard
    \/ ReadCsv
    \/ DetectDate
    \/ DateColGuard
    \/ RenameDate
    \/ ParseDates
    \/ DropMissingDates
    \/ Classify
    \/ CoerceNumeric

SpecNames == InitNames /\ [][NextClean]_vars
SpecRows  == InitRows /\ [][NextClean]_vars


(***************************************************************************)
(* Sidebar widgets and the date-range filter (lines 77-113).               *)
(***************************************************************************)
\* the dates the pickers offer: min_value..max_value
WidgetDays(mn, mx) == {DateVal(d) : d \in DateOf(mn).n .. DateOf(mx).n}

\* What st.date_input can return for a range value: a tuple of one or two
\* dates (one while only the start of the range is picked), or a bare date.
\* For an empty table min_date and max_date are NaT.
WidgetResults(mn, mx) ==
    IF mn.t = "nat" THEN {TupleResult(<<NaT, NaT>>)}
    ELSE LET days == WidgetDays(mn, mx)
         IN  {TupleResult(<<a>>) : a \in days}
             \cup {TupleResult(<<a, b>>) : a, b \in days}
             \cup {SingleResult(a) : a \in days}

\* st.date_input with NaT bounds (an empty table) is outside the library's
\* documented domain: the call either raises or returns the default.
DateInput ==
    /\ pc = "date_input"
    /\ steps' = Append(steps, "date_input")
    /\ LET mn == ColumnMin(df, DatePos(df))
           mx == ColumnMax(df, DatePos(df))
       IN  /\ min_date' = mn
           /\ max_date' = mx
           /\ \/ /\ \E r \in WidgetResults(mn, mx) :
                       /\ r.kind = "tuple" /\ Len(r.items) = 2 => r.items[1].n <= r.items[2].n
                       /\ date_range' = r
                 /\ pc' = "unpack_range"
                 /\ err' = err
              \/ /\ mn.t = "nat"
                 /\ date_range' = date_range
                 /\ Raise("StreamlitAPIException")
    /\ UNCHANGED <<uploaded, frameVars, start_date, end_date, df_filtered, selectVars, out>>

\* lines 89-92
UnpackRange ==
    /\ pc = "unpack_range"
    /\ steps' = Append(steps, "unpack_range")
    /\ IF date_range.kind = "tuple"
       THEN IF Len(date_range.items) = 2
            THEN /\ start_date' = date_range.items[1]
                 /\ end_date' = date_range.items[2]
                 /\ pc' = "filter"
                 /\ err' = err
            ELSE /\ UNCHANGED <<start_date, end_date>>
                 /\ Raise("ValueError")
       ELSE /\ start_date' = DateOf(min_date)
            /\ end_date' = DateOf(max_date)
            /\ pc' = "filter"
            /\ err' = err
    /\ UNCHANGED <<uploaded, frameVars, min_date, max_date, date_range, df_filtered,
                   selectVars, out>>

\* lines 94-95
FilterRange ==
    /\ pc = "filter"
    /\ steps' = Append(steps, "filter")
    /\ df_filtered' = filter_range(df, DatePos(df), start_date, end_date)
    /\ pc' = "select"
    /\ UNCHANGED <<uploaded, frameVars, min_date, max_date, date_range, start_date,
                   end_date, selectVars, out, err>>

\* the elements of s at the positions I, in order
RECURSIVE Pick(_, _, _)
Pick(s, I, i) ==
    IF i > Len(s) THEN <<>>
    ELSE (IF i \in I THEN <<s[i]>> ELSE <<>>) \o Pick(s, I, i + 1)

\* what a multiselect over options can return
Selections(options) == {Pick(options, I, 1) : I \in SUBSET (1..Len(options))}

\* lines 99-113
SelectSeries ==
    /\ pc = "select"
    /\ steps' = Append(steps, "select")
    /\ selected_di' \in Selections(di_cols)
    /\ selected_fra' \in Selections(fra_cols)
    /\ show_raw' \in BOOLEAN
    /\ show_corr' \in BOOLEAN
    /\ pc' = "tab_overview"
    /\ UNCHANGED <<uploaded, frameVars, rangeVars, out, err>>

(***************************************************************************)
(* The tabs (lines 125-241).                                               *)
(***************************************************************************)
OverviewElements(raw) ==
    <<Emit("overview", "subheader"), Emit("overview", "metrics"),
      Emit("overview", "markdown"), Emit("overview", "write"),
      Emit("overview", "markdown"), Emit("overview", "write")>>
    \o (IF raw THEN <<Emit("overview", "markdown"), Emit("overview", "dataframe")>>
        ELSE <<>>)

TabOverview ==
    /\ pc = "tab_overview"
    /\ steps' = Append(steps, "tab_overview")
    /\ out' = out \o OverviewElements(show_raw)
    /\ pc' = "tab_di"
    /\ UNCHANGED <<uploaded, frameVars, rangeVars, selectVars, err>>

\* lines 147-182; snap is the snapshot date the picker returned
DiTabElements(sel, d, snap) ==
    <<Emit("di", "subheader")>>
    \o (IF sel # <<>>
        THEN <<Emit("di", "line_chart"), Emit("di", "markdown"), Emit("di", "date_input")>>
             \o (IF \E i \in 1..Len(d.rows) :
                        TsEq(d.rows[i][DatePos(d)], to_datetime(snap))
                 THEN <<Emit("di", "snapshot_chart")>>
                 ELSE <<Emit("di", "info")>>)
        ELSE <<Emit("di", "info")>>)

\* what the snapshot picker can return
SnapshotResults(mn, mx) == IF mn.t = "nat" THEN {NaT} ELSE WidgetDays(mn, mx)

TabDI ==
    /\ pc = "tab_di"
    /\ steps' = Append(steps, "tab_di")
    /\ IF selected_di = <<>>
       THEN /\ out' = out \o DiTabElements(selected_di, df, NaT)
            /\ pc' = "tab_fra"
            /\ err' = err
       ELSE \/ /\ \E snap \in SnapshotResults(min_date, max_date) :
                     out' = out \o DiTabElements(selected_di, df, snap)
               /\ pc' = "tab_fra"
               /\ err' = err
            \/ /\ min_date.t = "nat"
               /\ out' = out \o <<Emit("di", "subheader"), Emit("di", "line_chart"),
                                  Emit("di", "markdown")>>
               /\ Raise("StreamlitAPIException")
    /\ UNCHANGED <<uploaded, frameVars, rangeVars, selectVars>>

\* lines 188-213
FraTabElements(sel) ==
    <<Emit("fra", "subheader")>>
    \o (IF sel # <<>>
        THEN <<Emit("fra", "line_chart"), Emit("fra", "markdown"), Emit("fra", "bar_chart")>>
        ELSE <<Emit("fra", "info")>>)

TabFRA ==
    /\ pc = "tab_fra"
    /\ steps' = Append(steps, "tab_fra")
    /\ out' = out \o FraTabElements(selected_fra)
    /\ pc' = "tab_stats"
    /\ UNCHANGED <<uploaded, frameVars, rangeVars, selectVars, err>>

\* st.dataframe(df_filtered[cols].describe()): DataFrame.describe raises
\* ValueError on a frame without columns
describe(cols) ==
    IF cols = <<>> THEN Emit("stats", "exception") ELSE Emit("stats", "describe")

\* StatsTabElements without the guards of lines 224 and 238
StatsTabElements_unguarded(sd, sf, corr) ==
    <<Emit("stats", "subheader")>>
    \o (IF corr THEN <<Emit("stats", "heatmap")>> ELSE <<>>)
    \o <<Emit("stats", "markdown")>>
    \o <<describe(sd \o sf)>>

\* lines 219-241
StatsTabElements(sd, sf, corr) ==
    <<Emit("stats", "subheader")>>
    \o (IF corr
        THEN (IF sd \o sf # <<>> THEN <<Emit("stats", "heatmap")>>
              ELSE <<Emit("stats", "info")>>)
        ELSE <<>>)
    \o <<Emit("stats", "markdown")>>
    \o (IF sd # <<>> \/ sf # <<>> THEN <<describe(sd \o sf)>>
        ELSE <<Emit("stats", "info")>>)

TabStats ==
    /\ pc = "tab_stats"
    /\ steps' = Append(steps, "tab_stats")
    /\ LET els == StatsTabElements(selected_di, selected_fra, show_corr)
       IN  /\ out' = out \o SelectSeq(els, LAMBDA e : e.kind # "exception")
           /\ IF Emit("stats", "exception") \in Range(els)
              THEN Raise("ValueError")
              ELSE pc' = "done" /\ err' = err
    /\ UNCHANGED <<uploaded, frameVars, rangeVars, selectVars>>

Next ==
    \/ UploadGuard
    \/ ReadCsv
    \/ DetectDate
    \/ DateColGuard
    \/ RenameDate
    \/ ParseDates
    \/ DropMissingDates
    \/ Classify
    \/ CoerceNumeric
    \/ DateInput
    \/ UnpackRange
    \/ FilterRange
    \/ SelectSeries
    \/ TabOverview
    \/ TabDI
    \/ TabFRA
    \/ TabStats

Spec == Init /\ [][Next]_vars


(***************************************************************************)
(* Properties.                                                             *)
(***************************************************************************)
\* the section of the script called step has run
Ran(step) == \E i \in 1..Len(steps) : steps[i] = step

IsPrefix(a, b) == Len(a) <= Len(b) /\ SubSeq(b, 1, Len(a)) = a

\* the k-th smallest element of the set of numbers S
Nth(S, k) == CHOOSE x \in S : Cardinality({y \in S : y < x}) = k - 1

\* sub lists the elements of s that satisfy it in the order of s
InOrderOf(sub, s) ==
    /\ Range(sub) \subseteq Range(s)
    /\ \A a, b \in 1..Len(sub) :
          a < b => \E x, y \in 1..Len(s) : x < y /\ s[x] = sub[a] /\ s[y] = sub[b]

\* the kinds of the elements shown in a tab
KindsIn(tab) == {out[i].kind : i \in {k \in 1..Len(out) : out[k].tab = tab}}

\* C1: whenever the uploaded table has a column whose lowercased name contains
\* "date" and a column named "Unnamed: 0", detect_date_column returns a column
\* whose lowercased name contains "date", whatever the order of the two.
C1_DatePreferredOverUnnamed ==
    ( /\ Ran("detect")
      /\ \E c \in Range(uploaded.columns) : Contains(Lower(c), litDate)
      /\ sUnnamed0 \in Range(uploaded.columns) )
    => (date_col # None /\ Contains(Lower(date_col[1]), litDate))

\* C2: after classification di_cols is exactly the non-date columns that start
\* with "F" and hold no "-", fra_cols exactly the non-date columns that hold a
\* "-", each in column order without repetition; a column matching neither
\* rule, such as "Price", is in neither list.
C2_ClassificationByName ==
    Ran("classify") =>
        /\ \A c \in Range(df.columns) :
              /\ c \in Range(di_cols) <=>
                    (c # sDate /\ StartsWith(c, litF) /\ ~Contains(c, litHyphen))
              /\ c \in Range(fra_cols) <=> (c # sDate /\ Contains(c, litHyphen))
        /\ InOrderOf(di_cols, df.columns)
        /\ InOrderOf(fra_cols, df.columns)
        /\ Cardinality(Range(di_cols)) = Len(di_cols)
        /\ Cardinality(Range(fra_cols)) = Len(fra_cols)
        /\ sPrice \notin Range(di_cols) \cup Range(fra_cols)

C2_Witness ==
    /\ Ran("classify")
    /\ df.columns = <<sDate, sF1, sF1F2, sPrice>>
    /\ di_cols = <<sF1>>
    /\ fra_cols = <<sF1F2>>

\* C3: after classification the DI and FRA column sets are disjoint and the
\* date column is in neither, under its new name "Date" and under the name it
\* had in the file.
C3_DisjointAndDateExcluded ==
    Ran("classify") =>
        /\ Range(di_cols) \cap Range(fra_cols) = {}
        /\ {sDate, date_col[1]} \cap (Range(di_cols) \cup Range(fra_cols)) = {}
        /\ \A j \in 1..Len(df.columns) :
              uploaded.columns[j] = date_col[1] =>
                  df.columns[j] \notin Range(di_cols) \cup Range(fra_cols)

C3_Witness ==
    /\ Ran("classify")
    /\ date_col = Some(sF1)
    /\ di_cols = <<sF2>>
    /\ fra_cols = <<sF1F2>>

\* C4: once the rows with a missing date are dropped, the frame holds exactly
\* the rows of the file whose date cell parses, in their order, labelled
\* 0, 1, 2, ...; every row has a date and there are no more rows than in the
\* file.
C4_CleanedRows ==
    Ran("drop_missing") =>
        LET raw  == read_csv(uploaded)
            p    == DatePos(df)
            kept == {i \in 1..Len(raw.rows) : to_datetime(raw.rows[i][p]).t = "ts"}
        IN  /\ Len(df.rows) = Cardinality(kept)
            /\ Len(df.rows) <= Len(uploaded.rows)
            /\ Len(df.index) = Len(df.rows)
            /\ \A k \in 1..Len(df.rows) :
                  /\ df.index[k] = k - 1
                  /\ df.rows[k][p].t = "ts"
                  /\ df.rows[k][p] = to_datetime(raw.rows[Nth(kept, k)][p])
                  /\ Ran("coerce") \/
                        \A j \in 1..Len(df.columns) :
                            j = p \/ df.rows[k][j] = raw.rows[Nth(kept, k)][j]

C4_Witness ==
    /\ Ran("drop_missing")
    /\ Len(uploaded.rows) = 2
    /\ uploaded.rows[1][DatePos(df)] = sBadDate
    /\ uploaded.rows[2][DatePos(df)] = sDay2
    /\ Len(df.rows) = 1

\* C5: after the range filter df_filtered holds exactly the cleaned rows whose
\* Date is on a day of [start_date, end_date], whatever the time of day, and
\* no error is raised.
C5_RangeFilterByDay ==
    Ran("filter") =>
        LET p == DatePos(df)
            inRange(i) ==
                /\ start_date.t = "date" /\ end_date.t = "date"
                /\ start_date.n <= df.rows[i][p].n \div 1440
                /\ df.rows[i][p].n \div 1440 <= end_date.n
        IN  /\ Range(df_filtered.index) =
                  {df.index[i] : i \in {k \in 1..Len(df.rows) : inRange(k)}}
            /\ \A k \in 1..Len(df_filtered.rows) :
                  df_filtered.rows[k] = df.rows[df_filtered.index[k] + 1]
            /\ err = "none"

\* C6: when the date-range widget returned anything but a pair of dates, the
\* pass does not crash at the unpacking: start_date and end_date are
\* min(Date) and max(Date) and the pass goes on to the filter.
C6_SingleValueDefaults ==
    (Ran("unpack_range") /\ ~(date_range.kind = "tuple" /\ Len(date_range.items) = 2))
        => /\ err = "none"
           /\ pc # "crashed"
           /\ start_date = DateOf(min_date)
           /\ end_date = DateOf(max_date)

\* C7: without an upload the pass shows the prompt and stops, nothing else
\* having run; detect_date_column returns None exactly for a table without
\* columns, and then the pass shows an error and stops before the rename;
\* classification runs only with an upload and a detected date column, after
\* the guards, the read, the detection, the rename and the cleaning.
C7_HaltingOrder ==
    /\ (~uploaded.present /\ steps # <<>>) =>
          /\ pc = "stopped"
          /\ steps = <<"upload_guard">>
          /\ out = <<Emit("page", "info")>>
          /\ df = EmptyFrame /\ date_col = None /\ err = "none"
    /\ Ran("detect") => (date_col = None <=> Len(df.columns) = 0)
    /\ (Ran("date_guard") /\ date_col = None) =>
          /\ pc = "stopped"
          /\ steps = <<"upload_guard", "read_csv", "detect", "date_guard">>
          /\ out = <<Emit("page", "error")>>
          /\ di_cols = <<>> /\ fra_cols = <<>>
    /\ Ran("classify") =>
          /\ uploaded.present
          /\ date_col # None
          /\ IsPrefix(<<"upload_guard", "read_csv", "detect", "date_guard", "rename",
                        "parse_dates", "drop_missing", "classify">>, steps)

C7_Witness ==
    /\ uploaded.present
    /\ Ran("date_guard")
    /\ date_col = None
    /\ pc = "stopped"

\* C8: after the rename of a table with at least one column, exactly one
\* column is named "Date", it is the detected date column, and every other
\* column has the name it had in the file.
C8_ExactlyOneDateColumn ==
    Ran("rename") =>
        /\ Cardinality(ColumnsNamed(df, sDate)) = 1
        /\ \A j \in 1..Len(df.columns) :
              IF uploaded.columns[j] = date_col[1]
              THEN df.columns[j] = sDate
              ELSE df.columns[j] = uploaded.columns[j] /\ df.columns[j] # sDate

\* C9: the coercion step leaves the column names, the row labels and every
\* cell outside DI and FRA as they were, and turns every cell of a DI or FRA
\* column into its number, or into NaN when it has none; no error is raised.
C9_CoercionFrame ==
    [][pc = "coerce" =>
          /\ df'.columns = df.columns
          /\ df'.index = df.index
          /\ Len(df'.rows) = Len(df.rows)
          /\ err' = "none"
          /\ \A i \in 1..Len(df.rows) : \A j \in 1..Len(df.columns) :
                IF df.columns[j] \in Range(di_cols) \cup Range(fra_cols)
                THEN /\ df'.rows[i][j].t \in {"num", "nan"}
                     /\ df'.rows[i][j] = to_numeric(df.rows[i][j])
                ELSE df'.rows[i][j] = df.rows[i][j]]_vars

C9_Witness ==
    /\ Ran("coerce")
    /\ df.columns = <<sDate, sF1, sPrice>>
    /\ Len(df.rows) = 2
    /\ df.rows[1][2] = NumCell(150)
    /\ df.rows[2][2] = NaN
    /\ df.rows[1][3] = StrCell(sBadDate)

\* C10: with no DI series selected the DI tab shows only its informational
\* message, with no FRA series selected the FRA tab shows only its
\* informational message, with neither the analytics tab computes neither the
\* correlation matrix nor the statistics and shows informational messages;
\* none of these tabs raises, and the pass runs to its end.
C10_EmptySelectionSkips ==
    /\ (Ran("tab_di") /\ selected_di = <<>>) =>
          /\ KindsIn("di") = {"subheader", "info"}
          /\ err = "none"
    /\ (Ran("tab_fra") /\ selected_fra = <<>>) =>
          /\ KindsIn("fra") = {"subheader", "info"}
          /\ err = "none"
    /\ (Ran("tab_stats") /\ selected_di = <<>> /\ selected_fra = <<>>) =>
          /\ KindsIn("stats") = {"subheader", "markdown", "info"}
          /\ err = "none"
          /\ pc = "done"

C10_Witness ==
    /\ pc = "done"
    /\ di_cols = <<>>
    /\ fra_cols = <<>>
    /\ show_corr
    /\ Len(df_filtered.rows) > 0

=============================================================================
